---- MODULE Spec2Model ----
(***************************************************************************)
(* A model of icd_code_flags_snflk (src/file1.py): the code list of an     *)
(* Excel map is filtered to ICD rows, cleaned, exploded into atomic        *)
(* entries, classified into ranges and regular expressions, grouped, and   *)
(* applied to a Snowflake table through a cursor, one INSERT per rule.     *)
(*                                                                         *)
(* A Python string is a sequence of one-character strings.  A cell of a    *)
(* column that may hold None/NaN is NA (the empty sequence) or <<v>>.       *)
(***************************************************************************)
EXTENDS Integers, Sequences, FiniteSets, Bags, TLC

\* ------------------------------------------------------------ bounds and constants

\* Rows of the code list (the Excel sheet) in specification Spec.
MaxRows == 2
\* Pieces a code cell is built from in specification SpecCell.
MaxChunks == 3
\* Width of str.ljust in the range loop.
PadWidth == 7

\* ------------------------------------------------------------ strings

NA == <<>>

\* Code point of a character (Python compares strings by code point).
Ord(c) ==
    CASE c = "\t" -> 9   [] c = " " -> 32  [] c = "*" -> 42  [] c = "," -> 44
      [] c = "-" -> 45   [] c = "." -> 46  [] c = "/" -> 47  [] c = "0" -> 48
      [] c = "1" -> 49   [] c = "2" -> 50  [] c = "3" -> 51  [] c = "4" -> 52
      [] c = "5" -> 53   [] c = "6" -> 54  [] c = "7" -> 55  [] c = "8" -> 56
      [] c = "9" -> 57   [] c = "A" -> 65  [] c = "B" -> 66  [] c = "C" -> 67
      [] c = "D" -> 68   [] c = "I" -> 73  [] c = "P" -> 80  [] c = "T" -> 84
      [] c = "X" -> 88   [] c = "Z" -> 90  [] c = "c" -> 99  [] c = "d" -> 100
      [] c = "i" -> 105  [] c = "x" -> 120 [] c = "|" -> 124

\* str.upper on one character.
Upper(c) ==
    CASE c = "c" -> "C" [] c = "d" -> "D" [] c = "i" -> "I" [] c = "x" -> "X"
      [] OTHER -> c

UpperStr(s) == [k \in 1..Len(s) |-> Upper(s[k])]

\* sub in s
Contains(s, sub) ==
    \E k \in 0..(Len(s) - Len(sub)) : SubSeq(s, k + 1, k + Len(sub)) = sub

\* str.contains(pat, case=False, regex=False)
ContainsNoCase(s, pat) == Contains(UpperStr(s), UpperStr(pat))

\* s < t for Python strings
RECURSIVE StrLess(_, _)
StrLess(s, t) ==
    IF t = <<>> THEN FALSE
    ELSE IF s = <<>> THEN TRUE
    ELSE IF s[1] # t[1] THEN Ord(s[1]) < Ord(t[1])
    ELSE StrLess(Tail(s), Tail(t))

StrLeq(s, t) == s = t \/ StrLess(s, t)

\* str.replace(old, new) for a one-character old; new is a string.
RECURSIVE Replace(_, _, _)
Replace(s, old, new) ==
    IF s = <<>> THEN <<>>
    ELSE (IF s[1] = old THEN new ELSE <<s[1]>>) \o Replace(Tail(s), old, new)

\* str.split(sep) for a one-character sep: never empty, keeps empty parts.
RECURSIVE Split(_, _)
Split(s, sep) ==
    IF \A k \in 1..Len(s) : s[k] # sep THEN <<s>>
    ELSE LET k == CHOOSE j \in 1..Len(s) :
                      s[j] = sep /\ \A m \in 1..(j - 1) : s[m] # sep
         IN  <<SubSeq(s, 1, k - 1)>> \o Split(SubSeq(s, k + 1, Len(s)), sep)

\* sep.join(parts)
RECURSIVE Join(_, _)
Join(parts, sep) ==
    IF parts = <<>> THEN <<>>
    ELSE IF Len(parts) = 1 THEN parts[1]
    ELSE parts[1] \o sep \o Join(Tail(parts), sep)

\* str.ljust(width, fill)
RECURSIVE LJust(_, _, _)
LJust(s, width, fill) ==
    IF Len(s) >= width THEN s ELSE LJust(Append(s, fill), width, fill)

\* ------------------------------------------------------------ inputs

\* Values of the map's code_type column.
CodeTypes ==
    { <<"i", "c", "d", "1", "0">>,
      <<"I", "C", "D", "9">>,
      <<"I", "C", "D">>,
      <<"C", "P", "T", "9">>,
      <<"I", "C", "D", "9", "/", "1", "0">> }

\* Values of the map's description column (map_descr_var).
Descrs == { <<"A">>, <<"B">> }

\* Code cells of the rows of specification Spec:
\* "1x,5", "X,2-3" and "4--5".
MapCells ==
    { <<"1", "x", ",", "5">>,
      <<"X", ",", "2", "-", "3">>,
      <<"4", "-", "-", "5">> }

\* Pieces of the code cells of specification SpecCell.
Chunks ==
    { <<"1">>, <<"x">>, <<"X">>, <<"-">>, <<",">>, <<" ">>, <<"\t">>,
      <<"2", "3", "4", "5", "6", "7", "8">> }

RECURSIVE CellsOf(_)
CellsOf(n) ==
    IF n = 0 THEN { <<>> }
    ELSE LET shorter == CellsOf(n - 1)
         IN  shorter \cup { c \o k : c \in shorter, k \in Chunks }

\* Sequences of at most n elements of S.
RECURSIVE SeqsUpTo(_, _)
SeqsUpTo(S, n) ==
    IF n = 0 THEN { <<>> }
    ELSE LET shorter == SeqsUpTo(S, n - 1)
         IN  shorter \cup { Append(q, e) : q \in shorter, e \in S }

\* The rows of the table indata: the diagnosis column (indata_code_var) and
\* the code type column (indata_code_type_var).
IndataRows ==
    { [dx |-> d, icd_type |-> t] :
        d \in { <<>>, <<"1">>, <<"1", "2">>, <<"X", "9">>, <<"2", "5">>,
                <<"4">>, <<"Z", "Z", "Z", "Z", "Z", "Z", "Z", "Z">> },
        t \in { <<"I", "C", "D", "9">>, <<"I", "C", "D", "1", "0">> } }

\* ------------------------------------------------------------ state

VARIABLES
    map,              \* the sheet pd.read_excel returns; never assigned
    df_comor_codes,   \* the code list data frame, a sequence of rows
    df_regex_codes,   \* the grouped regex data frame
    code_list,        \* lines 153 and 181: the loop's codes
    code_type_list,   \* lines 154 and 177
    descr_list,       \* lines 155 and 178
    i,                \* index of the next element a loop handles (0-based)
    cur,              \* the statements passed to cur.execute, in order
    outdata,          \* the rows of the table outdata, a bag
    pc                \* the place in the function

vars == <<map, df_comor_codes, df_regex_codes, code_list, code_type_list,
          descr_list, i, cur, outdata, pc>>

Row(t, c, d) == [code_type |-> t, code |-> c, descr |-> d]

\* Line 82: the data frame read_excel builds; index is the row's label,
\* which the filter and explode keep.
ReadExcel(sheet) == [k \in 1..Len(sheet) |-> [index |-> k - 1] @@ sheet[k]]

\* pd.read_excel has returned the map: line 82.
Init ==
    /\ map \in SeqsUpTo({ Row(t, c, d) : t \in CodeTypes, c \in MapCells,
                                          d \in Descrs }, MaxRows)
    /\ df_comor_codes = ReadExcel(map)
    /\ df_regex_codes = <<>>
    /\ code_list = <<>>
    /\ code_type_list = <<>>
    /\ descr_list = <<>>
    /\ i = 0
    /\ cur = <<>>
    /\ outdata = EmptyBag
    /\ pc = "filter"

\* One row whose code cell is built from at most MaxChunks pieces.
InitCell ==
    /\ map \in { <<Row(t, c, <<"A">>)>> :
                    t \in { <<"I", "C", "D", "9">>, <<"i", "c", "d", "1", "0">> },
                    c \in CellsOf(MaxChunks) }
    /\ df_comor_codes = ReadExcel(map)
    /\ df_regex_codes = <<>>
    /\ code_list = <<>>
    /\ code_type_list = <<>>
    /\ descr_list = <<>>
    /\ i = 0
    /\ cur = <<>>
    /\ outdata = EmptyBag
    /\ pc = "filter"

\* ------------------------------------------------------------ data frame steps

IsICD(r) == ContainsNoCase(r.code_type, <<"I", "C", "D">>)

\* Line 88: keep the rows whose code_type contains 'ICD', whatever the case.
FilterICD ==
    /\ pc = "filter"
    /\ df_comor_codes' = SelectSeq(df_comor_codes, IsICD)
    /\ pc' = "normalize"
    /\ UNCHANGED <<map, df_regex_codes, code_list, code_type_list, descr_list, i,
                   cur, outdata>>

\* NormType with the two tests in the other order ('10' before '9').
NormTypeTenFirst(t) ==
    IF Contains(t, <<"1", "0">>) THEN <<"1", "0">>
    ELSE IF Contains(t, <<"9">>) THEN <<"9">>
    ELSE t

\* Lines 94-95: np.where(contains('9'), '9', np.where(contains('10'), '10', x))
NormType(t) ==
    IF Contains(t, <<"9">>) THEN <<"9">>
    ELSE IF Contains(t, <<"1", "0">>) THEN <<"1", "0">>
    ELSE t

NormalizeCodeType ==
    /\ pc = "normalize"
    /\ df_comor_codes' =
           [k \in 1..Len(df_comor_codes) |->
               [df_comor_codes[k] EXCEPT !.code_type = NormType(@)]]
    /\ pc' = "clean"
    /\ UNCHANGED <<map, df_regex_codes, code_list, code_type_list, descr_list, i,
                   cur, outdata>>

\* RemoveBlanks removing every whitespace character, as a regex \s would.
RemoveWhitespace(s) == Replace(Replace(s, " ", <<>>), "\t", <<>>)

\* Line 106: str.replace(" ", "")
RemoveBlanks(s) == Replace(s, " ", <<>>)

\* Lines 102-106: code_orig keeps the cell, code loses its blank spaces.
CleanCode ==
    /\ pc = "clean"
    /\ df_comor_codes' =
           [k \in 1..Len(df_comor_codes) |->
               [code_orig |-> df_comor_codes[k].code]
               @@ [df_comor_codes[k] EXCEPT !.code = RemoveBlanks(@)]]
    /\ pc' = "explode"
    /\ UNCHANGED <<map, df_regex_codes, code_list, code_type_list, descr_list, i,
                   cur, outdata>>

\* CodeArray without the empty parts of the split.
CodeArrayNoEmpty(code) == SelectSeq(Split(code, ","), LAMBDA e : e # <<>>)

\* Line 112: str.split(',')
CodeArray(code) == Split(code, ",")

\* Line 113: one row per element of a row's code_array, rows in order.
RECURSIVE ExplodeRows(_)
ExplodeRows(rows) ==
    IF rows = <<>> THEN <<>>
    ELSE LET r == rows[1]
             parts == CodeArray(r.code)
         IN  [k \in 1..Len(parts) |-> [code_array |-> parts[k]] @@ r]
             \o ExplodeRows(Tail(rows))

Explode ==
    /\ pc = "explode"
    /\ df_comor_codes' = ExplodeRows(df_comor_codes)
    /\ pc' = "range"
    /\ UNCHANGED <<map, df_regex_codes, code_list, code_type_list, descr_list, i,
                   cur, outdata>>

\* Line 118: the entry where it contains "-", else None.
CodeRange(entry) == IF Contains(entry, <<"-">>) THEN <<entry>> ELSE NA

CodeRangeColumn ==
    /\ pc = "range"
    /\ df_comor_codes' =
           [k \in 1..Len(df_comor_codes) |->
               [code_range |-> CodeRange(df_comor_codes[k].code_array)]
               @@ df_comor_codes[k]]
    /\ pc' = "regex"
    /\ UNCHANGED <<map, df_regex_codes, code_list, code_type_list, descr_list,
                   i, cur, outdata>>

\* CodeRegex without the test for "-": every entry gets an expression.
CodeRegexUnconditional(entry) ==
    <<Replace(entry, "x", <<".">>) \o <<".", "*">>>>

\* CodeRegex replacing "x" whatever its case.
CodeRegexNoCase(entry) ==
    IF ~Contains(entry, <<"-">>)
    THEN <<Replace(Replace(entry, "x", <<".">>), "X", <<".">>)
           \o <<".", "*">>>>
    ELSE NA

\* Lines 130-134: where the entry holds no "-", the entry with "x" replaced
\* by "." and then ".*" added, else None (None + ".*" stays missing).
CodeRegex(entry) ==
    IF ~Contains(entry, <<"-">>)
    THEN <<Replace(entry, "x", <<".">>) \o <<".", "*">>>>
    ELSE NA

CodeRegexColumn ==
    /\ pc = "regex"
    /\ df_comor_codes' =
           [k \in 1..Len(df_comor_codes) |->
               [code_regex |-> CodeRegex(df_comor_codes[k].code_array)]
               @@ df_comor_codes[k]]
    /\ pc' = "group"
    /\ UNCHANGED <<map, df_regex_codes, code_list, code_type_list, descr_list,
                   i, cur, outdata>>

HasRegex(r) == r.code_regex # NA
HasRange(r) == r.code_range # NA

\* The order groupby sorts its keys in: code_type, then the description.
KeyLess(a, b) ==
    \/ StrLess(a[1], b[1])
    \/ a[1] = b[1] /\ StrLess(a[2], b[2])

RECURSIVE SortKeys(_)
SortKeys(keys) ==
    IF keys = {} THEN <<>>
    ELSE LET least == CHOOSE a \in keys :
                          \A b \in keys \ {a} : KeyLess(a, b)
         IN  <<least>> \o SortKeys(keys \ {least})

\* A column of a data frame as a list.
Column(rows, name) == [k \in 1..Len(rows) |-> rows[k][name]]

\* GroupByJoin grouping by code_type alone, the description taken from the
\* group's first row.
GroupByCodeType(rows) ==
    LET kept == SelectSeq(rows, HasRegex)
        keys == SortKeys({ <<kept[k].code_type, <<>>>> : k \in 1..Len(kept) })
        Members(key) == SelectSeq(kept, LAMBDA r : r.code_type = key[1])
        Regexes(key) ==
            [k \in 1..Len(Members(key)) |-> Members(key)[k].code_regex[1]]
    IN  [g \in 1..Len(keys) |->
            [code_type |-> keys[g][1], descr |-> Members(keys[g])[1].descr,
             code_regex |-> Join(Regexes(keys[g]), <<"|">>)]]

\* Lines 137-138: the rows with a regex, grouped by (code_type, description),
\* the groups in key order, each group's regexes joined with '|' in row order.
GroupByJoin(rows) ==
    LET kept == SelectSeq(rows, HasRegex)
        keys == SortKeys({ <<kept[k].code_type, kept[k].descr>> :
                             k \in 1..Len(kept) })
        Members(key) ==
            SelectSeq(kept, LAMBDA r : <<r.code_type, r.descr>> = key)
        Regexes(key) ==
            [k \in 1..Len(Members(key)) |-> Members(key)[k].code_regex[1]]
    IN  [g \in 1..Len(keys) |->
            [code_type |-> keys[g][1], descr |-> keys[g][2],
             code_regex |-> Join(Regexes(keys[g]), <<"|">>)]]

GroupRegex ==
    /\ pc = "group"
    /\ df_regex_codes' = GroupByJoin(df_comor_codes)
    /\ pc' = "create"
    /\ UNCHANGED <<map, df_comor_codes, code_list, code_type_list, descr_list,
                   i, cur, outdata>>

\* ------------------------------------------------------------ the cursor

\* Snowflake's REGEXP (lines 125-128): the pattern is anchored at both ends.
\* Of the pattern language, the characters the function writes: '.', '.*',
\* '|' and literal characters.
RECURSIVE MatchHere(_, _)
MatchHere(p, s) ==
    IF p = <<>> THEN s = <<>>
    ELSE IF Len(p) >= 2 /\ p[1] = "." /\ p[2] = "*"
    THEN \E k \in 0..Len(s) :
             MatchHere(SubSeq(p, 3, Len(p)), SubSeq(s, k + 1, Len(s)))
    ELSE /\ s # <<>>
         /\ p[1] = "." \/ p[1] = s[1]
         /\ MatchHere(Tail(p), Tail(s))

Regexp(subject, pattern) ==
    LET alts == Split(pattern, "|")
    IN  \E a \in 1..Len(alts) : MatchHere(alts[a], subject)

Between(subject, low, high) == StrLeq(low, subject) /\ StrLeq(subject, high)

Tag(r, code, code_type, descr) ==
    [map_code |-> code, map_code_type |-> code_type, map_descr |-> descr] @@ r

\* Lines 162-170: the rows the regex INSERT selects (xwhere is '').
RegexpSelect(code, code_type, descr) ==
    { Tag(r, code, code_type, descr) :
        r \in { q \in IndataRows :
                  Regexp(q.dx, code) /\ Contains(q.icd_type, code_type) } }

\* Lines 190-199: the rows the range INSERT selects (xwhere is '').
BetweenSelect(code, code_type, descr, range_low, range_high) ==
    { Tag(r, code, code_type, descr) :
        r \in { q \in IndataRows :
                  /\ Between(q.dx, range_low, range_high)
                  /\ Contains(q.icd_type, code_type) } }

\* cur.execute(stmt): the statement runs and the function goes on at next,
\* or the cursor raises and the function ends with that exception.
Execute(stmt, rows, next) ==
    /\ cur' = Append(cur, stmt)
    /\ \E ok \in BOOLEAN :
          IF ok THEN /\ outdata' = outdata (+) SetToBag(rows)
                     /\ pc' = next
                ELSE /\ outdata' = outdata
                     /\ pc' = "raised"

\* Line 143
CreateTable ==
    /\ pc = "create"
    /\ Execute([kind |-> "CREATE TABLE"], {}, "alter")
    /\ UNCHANGED <<map, df_comor_codes, df_regex_codes, code_list,
                   code_type_list, descr_list, i>>

\* Line 144
AlterTable ==
    /\ pc = "alter"
    /\ Execute([kind |-> "ALTER TABLE"], {}, "regex_lists")
    /\ UNCHANGED <<map, df_comor_codes, df_regex_codes, code_list,
                   code_type_list, descr_list, i>>

\* Lines 153-155
RegexLists ==
    /\ pc = "regex_lists"
    /\ code_list' = Column(df_regex_codes, "code_regex")
    /\ code_type_list' = Column(df_regex_codes, "code_type")
    /\ descr_list' = Column(df_regex_codes, "descr")
    /\ i' = 0
    /\ pc' = "regex_loop"
    /\ UNCHANGED <<map, df_comor_codes, df_regex_codes, cur, outdata>>

\* Lines 157-170: one turn of the regex loop.
RegexInsert ==
    /\ pc = "regex_loop"
    /\ i < Len(code_list)
    /\ LET code == code_list[i + 1]
           code_type == code_type_list[i + 1]
           descr == descr_list[i + 1]
       IN  Execute([kind |-> "INSERT REGEXP", code |-> code,
                    code_type |-> code_type, descr |-> descr],
                   RegexpSelect(code, code_type, descr), "regex_loop")
    /\ i' = i + 1
    /\ UNCHANGED <<map, df_comor_codes, df_regex_codes, code_list,
                   code_type_list, descr_list>>

\* RangeLists with code_type_list filled with the ranges (the bug the
\* update history of 2021-08-18 names).
RangeListsTypeFromRange ==
    /\ pc = "regex_loop"
    /\ i >= Len(code_list)
    /\ LET ranges == SelectSeq(df_comor_codes, HasRange)
       IN  /\ code_list' = [k \in 1..Len(ranges) |-> ranges[k].code_range[1]]
           /\ code_type_list' =
                  [k \in 1..Len(ranges) |-> ranges[k].code_range[1]]
           /\ descr_list' = Column(ranges, "descr")
    /\ i' = 0
    /\ pc' = "range_loop"
    /\ UNCHANGED <<map, df_comor_codes, df_regex_codes, cur, outdata>>

\* Lines 172-178: the regex loop is over; the lists of the range loop.
RangeLists ==
    /\ pc = "regex_loop"
    /\ i >= Len(code_list)
    /\ LET ranges == SelectSeq(df_comor_codes, HasRange)
       IN  /\ code_list' = [k \in 1..Len(ranges) |-> ranges[k].code_range[1]]
           /\ code_type_list' = Column(ranges, "code_type")
           /\ descr_list' = Column(ranges, "descr")
    /\ i' = 0
    /\ pc' = "range_loop"
    /\ UNCHANGED <<map, df_comor_codes, df_regex_codes, cur, outdata>>

\* Line 185
RangeLow(code) == Split(code, "-")[1]

\* RangeHigh without the padding.
RangeHighUnpadded(code) == Split(code, "-")[2]

\* Line 187
RangeHigh(code) == LJust(Split(code, "-")[2], PadWidth, "Z")

\* Lines 180-199: one turn of the range loop.
RangeInsert ==
    /\ pc = "range_loop"
    /\ i < Len(code_list)
    /\ LET code == code_list[i + 1]
           code_type == code_type_list[i + 1]
           descr == descr_list[i + 1]
           range_low == RangeLow(code)
           range_high == RangeHigh(code)
       IN  Execute([kind |-> "INSERT BETWEEN", code |-> code,
                    code_type |-> code_type, descr |-> descr,
                    range_low |-> range_low, range_high |-> range_high],
                   BetweenSelect(code, code_type, descr, range_low,
                                 range_high),
                   "range_loop")
    /\ i' = i + 1
    /\ UNCHANGED <<map, df_comor_codes, df_regex_codes, code_list,
                   code_type_list, descr_list>>

\* Lines 201-203: the range loop is over; the two data frames are returned.
Return ==
    /\ pc = "range_loop"
    /\ i >= Len(code_list)
    /\ code_type_list' = <<>>
    /\ descr_list' = <<>>
    /\ pc' = "done"
    /\ UNCHANGED <<map, df_comor_codes, df_regex_codes, code_list, i, cur,
                   outdata>>

Next ==
    \/ FilterICD
    \/ NormalizeCodeType
    \/ CleanCode
    \/ Explode
    \/ CodeRangeColumn
    \/ CodeRegexColumn
    \/ GroupRegex
    \/ CreateTable
    \/ AlterTable
    \/ RegexLists
    \/ RegexInsert
    \/ RangeLists
    \/ RangeInsert
    \/ Return

\* The function on a map of at most MaxRows rows.
Spec == Init /\ [][Next]_vars

\* The function on a map of one row, its code cell of at most MaxChunks
\* pieces.
SpecCell == InitCell /\ [][Next]_vars

\* ------------------------------------------------------------ properties

\* How far the function has come.
PcRank ==
    CASE pc = "filter" -> 0    [] pc = "normalize" -> 1 [] pc = "clean" -> 2
      [] pc = "explode" -> 3   [] pc = "range" -> 4     [] pc = "regex" -> 5
      [] pc = "group" -> 6     [] pc = "create" -> 7    [] OTHER -> 8

Filtered   == PcRank >= 1
Normalized == PcRank >= 2
Cleaned    == PcRank >= 3
Exploded   == PcRank >= 4
Classified == PcRank >= 6
Grouped    == PcRank >= 7

Entries == { df_comor_codes[k] : k \in 1..Len(df_comor_codes) }
Statements == { cur[k] : k \in 1..Len(cur) }
HasChar(s, c) == \E k \in 1..Len(s) : s[k] = c
Count(s, c) == Cardinality({ k \in 1..Len(s) : s[k] = c })

\* The row of the sheet an entry comes from.
Origin(r) == map[r.index + 1]

\* C1: once the entries are classified, an entry has code_range set (to the
\* entry itself) and code_regex unset if and only if its raw string holds a
\* hyphen, and otherwise code_regex set and code_range unset: never both,
\* never neither.
C1_RangeIffHyphen ==
    Classified =>
        \A r \in Entries :
            /\ HasChar(r.code_array, "-") =>
                   r.code_range = <<r.code_array>> /\ r.code_regex = NA
            /\ ~HasChar(r.code_array, "-") =>
                   r.code_range = NA /\ r.code_regex # NA
            /\ (r.code_range = NA) # (r.code_regex = NA)

\* A cell whose entries are one range and one pattern has been classified.
C1_Witness ==
    /\ pc = "done"
    /\ \E r \in Entries : r.code_range # NA /\ HasChar(r.code_array, "-")
    /\ \E r \in Entries : r.code_regex # NA /\ r.code_array # <<>>

\* C3: the expression of a PATTERN entry is the entry, character by
\* character, with "." for each lowercase "x", followed by ".*": it holds
\* no "x" and ends in ".*".
C3_PatternExpression ==
    Classified =>
        \A r \in Entries :
            r.code_regex # NA =>
                LET raw == r.code_array
                    expr == r.code_regex[1]
                IN  /\ Len(expr) = Len(raw) + 2
                    /\ \A k \in 1..Len(raw) :
                           expr[k] = IF raw[k] = "x" THEN "." ELSE raw[k]
                    /\ expr[Len(raw) + 1] = "." /\ expr[Len(raw) + 2] = "*"
                    /\ ~HasChar(expr, "x")

\* An entry with a lowercase and an uppercase X has been compiled.
C3_Witness ==
    /\ pc = "done"
    /\ \E r \in Entries :
           /\ r.code_regex # NA
           /\ HasChar(r.code_array, "x")
           /\ HasChar(r.code_array, "X")
           /\ HasChar(r.code_regex[1], "X")

IsWhitespace(c) == c = " " \/ c = "\t"

\* C8 as claimed: no entry, expression or range boundary holds a whitespace
\* character.
C8_NoWhitespace ==
    /\ Exploded =>
           \A r \in Entries :
               \A k \in 1..Len(r.code_array) : ~IsWhitespace(r.code_array[k])
    /\ \A st \in Statements :
           /\ st.kind = "INSERT REGEXP" =>
                  \A k \in 1..Len(st.code) : ~IsWhitespace(st.code[k])
           /\ st.kind = "INSERT BETWEEN" =>
                  /\ \A k \in 1..Len(st.range_low) :
                         ~IsWhitespace(st.range_low[k])
                  /\ \A k \in 1..Len(st.range_high) :
                         ~IsWhitespace(st.range_high[k])

IsNotBlank(c) == c # " "

\* C8 as amended: the cleaned cell is the cell without its blank spaces
\* (U+0020), every other character kept in place, tabs included; so no
\* entry, expression or range boundary holds a blank space.
C8_BlanksRemoved ==
    /\ Cleaned =>
           \A r \in Entries :
               /\ r.code = SelectSeq(Origin(r).code, IsNotBlank)
               /\ Count(r.code, "\t") = Count(Origin(r).code, "\t")
    /\ Exploded =>
           \A r \in Entries : ~HasChar(r.code_array, " ")
    /\ Classified =>
           \A r \in Entries :
               r.code_regex # NA => ~HasChar(r.code_regex[1], " ")
    /\ \A st \in Statements :
           /\ st.kind = "INSERT REGEXP" => ~HasChar(st.code, " ")
           /\ st.kind = "INSERT BETWEEN" =>
                  ~HasChar(st.range_low, " ") /\ ~HasChar(st.range_high, " ")

\* A cell with a blank space and a tab has been compiled: the blank is gone
\* and the tab is in an entry.
C8_Witness ==
    /\ pc = "done"
    /\ \E r \in Entries :
           /\ HasChar(Origin(r).code, " ")
           /\ HasChar(r.code_array, "\t")

\* C9: every entry comes from a row whose code_type holds 'ICD' in some
\* case, and every such row has an entry; an entry's code_type is '9' where
\* the row's holds '9', else '10' where it holds '10', else the row's own,
\* the same for all the entries of a row.
C9_CodeType ==
    /\ Filtered =>
         \A r \in Entries :
           \E k \in 0..(Len(Origin(r).code_type) - 3) :
               /\ Origin(r).code_type[k + 1] \in {"I", "i"}
               /\ Origin(r).code_type[k + 2] \in {"C", "c"}
               /\ Origin(r).code_type[k + 3] \in {"D", "d"}
    /\ Normalized =>
           /\ \A k \in 1..Len(map) :
                  Contains(UpperStr(map[k].code_type), <<"I", "C", "D">>) =>
                      \E r \in Entries : r.index = k - 1
           /\ \A r \in Entries :
                  LET t == Origin(r).code_type
                  IN  /\ HasChar(t, "9") => r.code_type = <<"9">>
                      /\ ~HasChar(t, "9") /\ Contains(t, <<"1", "0">>) =>
                             r.code_type = <<"1", "0">>
                      /\ ~HasChar(t, "9") /\ ~Contains(t, <<"1", "0">>) =>
                             r.code_type = t
           /\ \A r, q \in Entries :
                  r.index = q.index => r.code_type = q.code_type

\* A row whose code_type holds both '9' and '10' has given a range and a
\* pattern entry, beside a row that is not an ICD row.
C9_Witness ==
    /\ pc = "done"
    /\ \E k \in 1..Len(map) : ~IsICD(map[k])
    /\ \E r, q \in Entries :
           /\ r.index = q.index
           /\ r.code_range # NA /\ q.code_regex # NA
           /\ Contains(Origin(r).code_type, <<"1", "0">>)
           /\ r.code_type = <<"9">>

\* The PATTERN entries of a (code_type, description) pair, in row order.
PatternMembers(t, d) ==
    SelectSeq(df_comor_codes,
              LAMBDA r : r.code_regex # NA /\ r.code_type = t /\ r.descr = d)

\* The entries are in the order of the rows of the sheet.
SourceOrder ==
    \A k \in 1..(Len(df_comor_codes) - 1) :
        df_comor_codes[k].index <= df_comor_codes[k + 1].index

\* expr is e1|e2|...|en for the expressions e1, ..., en of exprs.
RECURSIVE IsJoinOf(_, _)
IsJoinOf(expr, exprs) ==
    IF exprs = <<>> THEN FALSE
    ELSE IF Len(exprs) = 1 THEN expr = exprs[1]
    ELSE LET e == exprs[1]
         IN  /\ Len(expr) > Len(e)
             /\ SubSeq(expr, 1, Len(e)) = e
             /\ expr[Len(e) + 1] = "|"
             /\ IsJoinOf(SubSeq(expr, Len(e) + 2, Len(expr)), Tail(exprs))

\* C2: once the pattern table is built, every (code_type, description) pair
\* of a PATTERN entry has exactly one rule, every rule has such a pair, and
\* a rule's expression is the '|'-join of the expressions of exactly the
\* PATTERN entries of its pair, in the order of the rows of the sheet (one
\* member: that member's expression).
C2_OneRulePerPair ==
    Grouped =>
        /\ SourceOrder
        /\ \A r \in Entries :
               r.code_regex # NA =>
                   Cardinality({ g \in 1..Len(df_regex_codes) :
                                   /\ df_regex_codes[g].code_type = r.code_type
                                   /\ df_regex_codes[g].descr = r.descr }) = 1
        /\ \A g \in 1..Len(df_regex_codes) :
               LET rule == df_regex_codes[g]
                   members == PatternMembers(rule.code_type, rule.descr)
               IN  /\ members # <<>>
                   /\ IsJoinOf(rule.code_regex,
                               [m \in 1..Len(members) |->
                                   members[m].code_regex[1]])
                   /\ Len(members) = 1 =>
                          rule.code_regex = members[1].code_regex[1]

\* PATTERN entries of two rows of the sheet have been merged into one rule.
C2_Witness ==
    /\ pc = "done"
    /\ Len(df_regex_codes) = 1
    /\ \E r, q \in Entries :
           /\ r.code_regex # NA /\ q.code_regex # NA
           /\ r.index # q.index
           /\ r.code_type = q.code_type /\ r.descr = q.descr
           /\ Origin(r).code_type # Origin(q).code_type

\* The two parts of a code with one hyphen.
LeftOfHyphen(code) ==
    SubSeq(code, 1, (CHOOSE h \in 1..Len(code) : code[h] = "-") - 1)
RightOfHyphen(code) ==
    SubSeq(code, (CHOOSE h \in 1..Len(code) : code[h] = "-") + 1, Len(code))

\* C4: the range query of an entry with exactly one hyphen has low = the
\* part left of the hyphen and high = the part right of it followed by
\* 'Z's up to a length of 7: len(high) = max(7, len(right part)).
C4_RangeBounds ==
    \A st \in Statements :
        st.kind = "INSERT BETWEEN" /\ Count(st.code, "-") = 1 =>
            LET right == RightOfHyphen(st.code)
                high == st.range_high
            IN  /\ st.range_low = LeftOfHyphen(st.code)
                /\ Len(high) = IF Len(right) >= 7 THEN Len(right) ELSE 7
                /\ SubSeq(high, 1, Len(right)) = right
                /\ \A k \in (Len(right) + 1)..Len(high) : high[k] = "Z"

\* A range whose right part has 7 characters or more has been queried,
\* with a left part that is not empty.
C4_Witness ==
    \E st \in Statements :
        /\ st.kind = "INSERT BETWEEN"
        /\ Count(st.code, "-") = 1
        /\ Len(RightOfHyphen(st.code)) >= 7
        /\ st.range_low # <<>>
        /\ st.range_high = RightOfHyphen(st.code)

\* C5 as claimed: no range query is issued for an entry that does not split
\* on hyphens into exactly two parts.
C5_MalformedRangeSkipped ==
    \A st \in Statements :
        st.kind = "INSERT BETWEEN" => Len(Split(st.code, "-")) = 2

\* What a statement says, without the bounds computed from it.
Said(st) ==
    IF st.kind \in {"INSERT REGEXP", "INSERT BETWEEN"}
    THEN [kind |-> st.kind, code |-> st.code, code_type |-> st.code_type,
          descr |-> st.descr]
    ELSE [kind |-> st.kind]

RangeEntries == SelectSeq(df_comor_codes, LAMBDA r : r.code_range # NA)

\* The statements of a whole run: the table, its columns, the pattern
\* rules in the pattern table's order, the RANGE entries in row order.
ExpectedStatements ==
    <<[kind |-> "CREATE TABLE"], [kind |-> "ALTER TABLE"]>>
    \o [g \in 1..Len(df_regex_codes) |->
           [kind |-> "INSERT REGEXP",
            code |-> df_regex_codes[g].code_regex,
            code_type |-> df_regex_codes[g].code_type,
            descr |-> df_regex_codes[g].descr]]
    \o [k \in 1..Len(RangeEntries) |->
           [kind |-> "INSERT BETWEEN",
            code |-> RangeEntries[k].code_array,
            code_type |-> RangeEntries[k].code_type,
            descr |-> RangeEntries[k].descr]]

\* C6: the statements issued are, in order, the creation of the table, the
\* addition of its columns, one insert per pattern rule in the pattern
\* table's order and one insert per RANGE entry in row order: at any time a
\* prefix of that list, and all of it when the function returns, so that
\* the inserts number the pattern groups plus the RANGE entries and no
\* range insert comes before a pattern insert.
C6_StatementOrder ==
    /\ ~Grouped => cur = <<>>
    /\ Grouped =>
           /\ SourceOrder
           /\ Len(cur) <= Len(ExpectedStatements)
           /\ \A k \in 1..Len(cur) : Said(cur[k]) = ExpectedStatements[k]
           /\ \A j, k \in 1..Len(cur) :
                  j < k => ~(/\ cur[j].kind = "INSERT BETWEEN"
                             /\ cur[k].kind = "INSERT REGEXP")
    /\ pc = "done" =>
           /\ Len(cur) = Len(ExpectedStatements)
           /\ Cardinality({ k \in 1..Len(cur) :
                              cur[k].kind \in {"INSERT REGEXP",
                                               "INSERT BETWEEN"} })
                  = Len(df_regex_codes) + Len(RangeEntries)

\* A run with two pattern rules and two range entries has returned, the
\* rules in key order and the ranges in row order.
C6_Witness ==
    /\ pc = "done"
    /\ Len(df_regex_codes) = 2
    /\ Len(RangeEntries) = 2
    /\ Len(cur) = 6
    /\ df_regex_codes[1].descr = RangeEntries[2].descr
    /\ df_regex_codes[2].descr = RangeEntries[1].descr
    /\ RangeEntries[1].descr # RangeEntries[2].descr

\* C7 as claimed: when the query of a rule fails, the queries of all the
\* remaining rules are issued all the same.
C7_RulesIndependent ==
    /\ pc = "raised"
    /\ cur[Len(cur)].kind \in {"INSERT REGEXP", "INSERT BETWEEN"}
    => Len(cur) = Len(ExpectedStatements)

\* The statement at place k of cur has run without an error.
Succeeded(k) == k < Len(cur) \/ pc # "raised"

\* The empty entries of a (code_type, description) pair.
EmptyEntries(t, d) ==
    { r \in Entries : r.code_array = <<>> /\ r.code_type = t /\ r.descr = d }

====
